---- MODULE Spec2Model ----
(***************************************************************************)
(* SyncEngine (packages/backend/server/src/cache/cache.ts, lines 339-585): *)
(* one engine, one local SyncPeer and N remote SyncPeers per run of        *)
(* sync(signal).  JavaScript is single threaded: a handler runs to its     *)
(* next await, and onStatusChange.emit calls the subscribers               *)
(* synchronously, so a subscriber may call start() or stop() in the middle *)
(* of sync.  `stack` holds the runs whose synchronous code is suspended    *)
(* inside such an emit; every other handler runs only when it is empty.    *)
(* A peer's status is represented by its step, the only field the engine   *)
(* reads.                                                                  *)
(*                                                                         *)
(* LocalCache (same file, lines 44-300): one key of the Keyv store.  Every *)
(* method is async: each await of kv.get / kv.has / kv.set is a point      *)
(* where another pending call may run.                                     *)
(***************************************************************************)
EXTENDS Integers, Sequences, FiniteSets, TLC

\* ---- bounds ----
MaxRemotes == 2
MaxRuns == 2
MaxWaits == 2
MaxWaitRemotes == 1
MaxCalls == 2
MaxOps == 4

\* ---- SyncEngineStep ----
Stopped == 0
Syncing == 1
Synced == 2

\* ---- SyncPeerStep (./peer) ----
PeerStopped == 0
PeerRetrying == 1
PeerLoadingRootDoc == 2
PeerLoadingSubDoc == 3
PeerLoaded == 4
PeerSyncing == 5
PeerSynced == 6

MANUALLY_STOP == "manually-stop"

\* null: an absent peer, or an absent peer status in SyncEngineStatus
Null == -1
\* no caller token passed to a wait call (abort?: AbortSignal left out)
NoToken == 0

VARIABLES
  nRemotes,     \* this.remotes.length, fixed by the constructor
  status,       \* this._status
  abort,        \* this.abort: id of the run its controller belongs to (0: the field initializer's)
  aborted,      \* signal.aborted of every controller
  nruns,        \* number of calls of sync so far
  pc,           \* position of every run of sync
  constructed,  \* the SyncPeers each run constructed (local is peer 0, remote i is peer i)
  peerStep,     \* status.step of the peers whose status sync can still read
  statePeers,   \* peers held in the run's state.localPeer / state.remotePeers
  cleanUp,      \* peers whose onStatusChange subscription is live
  stoppedPeers, \* peers on which stop() has been called
  loaded,       \* the run's localPeer.waitForLoaded(signal) has resolved
  outcome,      \* how the promise of sync settled
  stack,        \* runs suspended inside onStatusChange.emit
  pubRun,       \* run whose updateSyncingState assigned the current status (0: none)
  tokenAborted, \* aborted flag of the caller tokens
  waits         \* calls of waitForSynced / waitForLoadedRootDoc

VARIABLES
  kvType,       \* what this.kv holds under the key: "absent", "number", "array", "object"
  kvNum,        \* the number held under the key
  kvList,       \* the array held under the key (inside the wrapper when kvType is "object")
  kv0,          \* what the key held before the first call
  calls,        \* pending and finished calls of setnx / increase / decrease
  ncalls,       \* number of list calls made so far
  lastCall      \* the last list call and what it returned

cacheVars == <<kvType, kvNum, kvList, kv0, calls, ncalls, lastCall>>

syncVars == <<nRemotes, status, abort, aborted, nruns, pc, constructed, peerStep,
              statePeers,
              cleanUp, stoppedPeers, loaded, outcome, stack, pubRun,
              tokenAborted, waits>>

vars == <<syncVars, cacheVars>>

engineVars == <<status, abort, aborted, nruns, pc, constructed, peerStep,
                statePeers,
                cleanUp, stoppedPeers, loaded, outcome, stack, pubRun>>

Runs == 1..MaxRuns
Peers == 0..MaxRemotes
\* the caller tokens passed to the wait calls
Tokens == {1}
RunningPeerSteps == {PeerRetrying, PeerLoadingRootDoc, PeerLoadingSubDoc,
                     PeerSyncing, PeerSynced}

\* ---- pure functions ----

\* the status the constructor assigns
InitialStatus(n) ==
  [step |-> Stopped, local |-> Null, remotes |-> [i \in 1..n |-> Null],
   retrying |-> FALSE]

StoppedStatusKeepsRetrying(n) ==
  [step |-> Stopped, local |-> Null, remotes |-> [i \in 1..n |-> Null],
   retrying |-> status.retrying]

\* the status stop() assigns
StoppedStatus(n) ==
  [step |-> Stopped, local |-> Null, remotes |-> [i \in 1..n |-> Null],
   retrying |-> FALSE]

StepLoopLocalOnly(allPeer, i) ==
  IF allPeer[1] = Null \/ allPeer[1] # PeerSynced THEN Syncing ELSE Synced

\* the for loop of updateSyncingState, with its break
RECURSIVE StepLoop(_, _)
StepLoop(allPeer, i) ==
  IF i > Len(allPeer) THEN Synced
  ELSE IF allPeer[i] = Null \/ allPeer[i] # PeerSynced THEN Syncing
  ELSE StepLoop(allPeer, i + 1)

SomeRemoteRetrying(allPeer) ==
  \E i \in 2..Len(allPeer) : allPeer[i] # Null /\ allPeer[i] = PeerRetrying

\* allPeer.some(peer => peer?.status.step === SyncPeerStep.Retrying)
SomeRetrying(allPeer) ==
  \E i \in 1..Len(allPeer) : allPeer[i] # Null /\ allPeer[i] = PeerRetrying

\* the status updateSyncingState(local, remotes) assigns
UpdateSyncingState(local, remotes) ==
  LET allPeer == <<local>> \o remotes
  IN [step |-> StepLoop(allPeer, 1),
      local |-> local,
      remotes |-> remotes,
      retrying |-> SomeRetrying(allPeer)]

IsLoadedRootDocOrAtRootDoc(s) ==
  LET all == <<s.local>> \o s.remotes
  IN ~ \E i \in 1..Len(all) : all[i] = Null \/ all[i] < PeerLoadingRootDoc

\* isLoadedRootDoc of waitForLoadedRootDoc
IsLoadedRootDoc(s) ==
  LET all == <<s.local>> \o s.remotes
  IN ~ \E i \in 1..Len(all) : all[i] = Null \/ all[i] <= PeerLoadingRootDoc

\* `this.status.step == SyncEngineStep.Synced` of waitForSynced
IsSynced(s) == s.step = Synced

\* SyncPeer.waitForLoaded: the peer is past its load checkpoint
PeerPastLoaded(step) == step > PeerLoaded

\* the arguments sync passes to updateSyncingState: state.localPeer,
\* state.remotePeers, read through the given peer steps
StateLocal(held, steps) == IF 0 \in held THEN steps[0] ELSE Null
StateRemotes(held, steps) ==
  [i \in 1..nRemotes |-> IF i \in held THEN steps[i] ELSE Null]
PublishedBy(held, steps) ==
  UpdateSyncingState(StateLocal(held, steps), StateRemotes(held, steps))

\* `if (!signal.aborted)` of the two onStatusChange callbacks of sync
CallbackMayPublish(r) == ~ aborted[r]

\* the publication of line 484 is not guarded
ContinuationMayPublish(r) == TRUE

NoAwaitBeforeRemotes(r) == pc[r] \in {"waitLoaded", "resolved"}

\* `await state.localPeer.waitForLoaded(signal)` comes before step 3
MayConstructRemotes(r) == pc[r] = "resolved"

\* ---- waits ----
WaitPred(kind, s) == IF kind = "synced" THEN IsSynced(s) ELSE IsLoadedRootDoc(s)

NotifyAnyStatus(ws, s) ==
  [w \in DOMAIN ws |->
     IF ws[w].state = "pending"
     THEN [ws[w] EXCEPT !.state = "resolved"]
     ELSE ws[w]]

\* the resolve listeners the wait calls registered on engine.onStatusChange
Notify(ws, s) ==
  [w \in DOMAIN ws |->
     IF ws[w].state = "pending" /\ WaitPred(ws[w].kind, s)
     THEN [ws[w] EXCEPT !.state = "resolved"]
     ELSE ws[w]]

RejectEveryWait(ws, t) ==
  [w \in DOMAIN ws |->
     IF ws[w].state = "pending"
     THEN [ws[w] EXCEPT !.state = "rejected", !.reason = t]
     ELSE ws[w]]

\* the abort listeners the wait calls registered on the caller token
RejectWaits(ws, t) ==
  [w \in DOMAIN ws |->
     IF ws[w].state = "pending" /\ ws[w].token = t
     THEN [ws[w] EXCEPT !.state = "rejected", !.reason = t]
     ELSE ws[w]]

WaitCallRacesOnly(kind, tok, s, tokAborted) ==
  IF tok # NoToken /\ tokAborted THEN "rejected" ELSE "pending"

\* the branch a wait call takes: the status check first, then the race
WaitCall(kind, tok, s, tokAborted) ==
  IF WaitPred(kind, s) THEN "resolved"
  ELSE IF tok # NoToken /\ tokAborted THEN "rejected"
  ELSE "pending"

\* ---- abort listeners of a run's signal ----
\* waitForLoaded's race and the step 4 promise reject when the signal fires
AbortRejects(p, r) == r \in Runs /\ p[r] \in {"waitLoaded", "steady"}

AbortPc(p, r) == IF AbortRejects(p, r) THEN [p EXCEPT ![r] = "rejected"] ELSE p

\* Once sync is rejected it goes to catch and finally and reads no peer
\* status again (the callbacks return at `!signal.aborted` or are disposed):
\* the steps of its peers are no longer tracked.
NoSteps == [p \in Peers |-> Null]

Untrack(steps, p, r) ==
  IF AbortRejects(p, r) THEN [steps EXCEPT ![r] = NoSteps] ELSE steps

\* no list call made yet
NoCall == [op |-> "none", arg |-> 0, ret |-> <<>>, len |-> 0, err |-> FALSE]

\* new Keyv(): nothing under the key, no call made
CacheIdle ==
  /\ kvType = "absent"
  /\ kvNum = 0
  /\ kvList = <<>>
  /\ kv0 = [type |-> "absent", num |-> 0]
  /\ calls = <<>>
  /\ ncalls = 0
  /\ lastCall = NoCall

\* the SyncEngine after its constructor
EngineInit ==
  /\ nRemotes \in 0..MaxRemotes
  /\ status = InitialStatus(nRemotes)
  /\ abort = 0
  /\ aborted = [r \in 0..MaxRuns |-> FALSE]
  /\ nruns = 0
  /\ pc = [r \in Runs |-> "idle"]
  /\ constructed = [r \in Runs |-> {}]
  /\ peerStep = [r \in Runs |-> NoSteps]
  /\ statePeers = [r \in Runs |-> {}]
  /\ cleanUp = [r \in Runs |-> {}]
  /\ stoppedPeers = [r \in Runs |-> {}]
  /\ loaded = [r \in Runs |-> FALSE]
  /\ outcome = [r \in Runs |-> "none"]
  /\ stack = <<>>
  /\ pubRun = 0
  /\ tokenAborted = [t \in Tokens |-> FALSE]
  /\ waits = <<>>

Init == CacheIdle /\ EngineInit

\* stop(): abort the current controller, reset _status (no emit)
Stop ==
  /\ aborted' = [aborted EXCEPT ![abort] = TRUE]
  /\ pc' = AbortPc(pc, abort)
  /\ peerStep' = Untrack(peerStep, pc, abort)
  /\ status' = StoppedStatus(nRemotes)
  /\ pubRun' = 0
  /\ UNCHANGED cacheVars
  /\ UNCHANGED <<nRemotes, abort, nruns, constructed, statePeers, cleanUp,
                 stoppedPeers, loaded, outcome, stack, tokenAborted, waits>>

StartNeverStops == FALSE

\* `if (this.status.step !== SyncEngineStep.Stopped) this.stop()` of start()
StartStops == status.step # Stopped

\* start(): stop() if not Stopped, a new controller, then sync(signal) up to
\* the emit of its first updateSyncingState (lines 447-467)
Start ==
  /\ nruns < MaxRuns
  /\ LET r == nruns + 1
         ab1 == IF StartStops THEN [aborted EXCEPT ![abort] = TRUE] ELSE aborted
         pc1 == IF StartStops THEN AbortPc(pc, abort) ELSE pc
         ps1 == IF StartStops THEN Untrack(peerStep, pc, abort) ELSE peerStep
         steps == [NoSteps EXCEPT ![0] = PeerLoadingRootDoc]
         s == PublishedBy({0}, steps)
     IN /\ nruns' = r
        /\ abort' = r
        /\ aborted' = ab1
        /\ pc' = [pc1 EXCEPT ![r] = "pub467"]
        /\ constructed' = [constructed EXCEPT ![r] = {0}]
        /\ peerStep' = [ps1 EXCEPT ![r] = steps]
        /\ statePeers' = [statePeers EXCEPT ![r] = {0}]
        /\ cleanUp' = [cleanUp EXCEPT ![r] = {0}]
        /\ status' = s
        /\ pubRun' = r
        /\ waits' = Notify(waits, s)
        /\ stack' = Append(stack, r)
  /\ UNCHANGED cacheVars
  /\ UNCHANGED <<nRemotes, stoppedPeers, loaded, outcome, tokenAborted>>

\* SyncPeer.waitForLoaded(signal), called while the emit of line 467 returns:
\* the race is pending, or already rejected when a subscriber stopped the run
SyncWaitLoaded(r) ==
  /\ stack # <<>> /\ stack[Len(stack)] = r
  /\ pc[r] = "pub467"
  /\ pc' = [pc EXCEPT ![r] = IF aborted[r] THEN "rejected" ELSE "waitLoaded"]
  /\ peerStep' = IF aborted[r] THEN [peerStep EXCEPT ![r] = NoSteps] ELSE peerStep
  /\ stack' = SubSeq(stack, 1, Len(stack) - 1)
  /\ UNCHANGED cacheVars
  /\ UNCHANGED <<nRemotes, status, abort, aborted, nruns, constructed,
                 statePeers, cleanUp, stoppedPeers, loaded, outcome,
                 pubRun, tokenAborted, waits>>

\* a SyncPeer whose status sync can still read changes its status and emits
\* it: first the callback sync subscribed (lines 461-464, 476-479), then
\* waitForLoaded's listener
PeerStatusChange(r, p, s) ==
  /\ stack = <<>>
  /\ r \in 1..nruns
  /\ p \in constructed[r] \cap cleanUp[r]
  /\ p \notin stoppedPeers[r]
  /\ pc[r] # "rejected"
  /\ s # peerStep[r][p]
  /\ LET steps == [peerStep[r] EXCEPT ![p] = s]
         st == PublishedBy(statePeers[r], steps)
         resolves == p = 0 /\ pc[r] = "waitLoaded" /\ PeerPastLoaded(s)
     IN /\ peerStep' = [peerStep EXCEPT ![r] = steps]
        /\ IF CallbackMayPublish(r)
           THEN /\ status' = st
                /\ pubRun' = r
                /\ waits' = Notify(waits, st)
           ELSE UNCHANGED <<status, pubRun, waits>>
        /\ pc' = IF resolves THEN [pc EXCEPT ![r] = "resolved"] ELSE pc
        /\ loaded' = IF resolves THEN [loaded EXCEPT ![r] = TRUE] ELSE loaded
  /\ UNCHANGED cacheVars
  /\ UNCHANGED <<nRemotes, abort, aborted, nruns, constructed, statePeers,
                 cleanUp, stoppedPeers, outcome, stack, tokenAborted>>

\* sync after the await of line 470: step 3 constructs and subscribes the
\* remote peers, then updateSyncingState (lines 473-484)
SyncContinue(r) ==
  /\ stack = <<>>
  /\ r \in 1..nruns
  /\ MayConstructRemotes(r)
  /\ LET steps == [p \in Peers |-> IF p \in 1..nRemotes
                                   THEN PeerLoadingRootDoc ELSE peerStep[r][p]]
         held == statePeers[r] \cup (1..nRemotes)
         st == PublishedBy(held, steps)
     IN /\ peerStep' = [peerStep EXCEPT ![r] = steps]
        /\ constructed' = [constructed EXCEPT ![r] = @ \cup (1..nRemotes)]
        /\ statePeers' = [statePeers EXCEPT ![r] = held]
        /\ cleanUp' = [cleanUp EXCEPT ![r] = @ \cup (1..nRemotes)]
        /\ IF ContinuationMayPublish(r)
           THEN /\ status' = st
                /\ pubRun' = r
                /\ waits' = Notify(waits, st)
           ELSE UNCHANGED <<status, pubRun, waits>>
  /\ pc' = [pc EXCEPT ![r] = "pub484"]
  /\ stack' = Append(stack, r)
  /\ UNCHANGED cacheVars
  /\ UNCHANGED <<nRemotes, abort, aborted, nruns, stoppedPeers, loaded,
                 outcome, tokenAborted>>

SteadyWaitListensOnly(r) == "steady"

\* `if (signal.aborted) reject(signal.reason)` before addEventListener
SteadyWait(r) == IF aborted[r] THEN "rejected" ELSE "steady"

\* step 4, while the emit of line 484 returns: the promise that rejects on
\* abort, at once when the signal is already aborted (lines 489-496)
SyncSteadyWait(r) ==
  /\ stack # <<>> /\ stack[Len(stack)] = r
  /\ pc[r] = "pub484"
  /\ pc' = [pc EXCEPT ![r] = SteadyWait(r)]
  /\ peerStep' = IF SteadyWait(r) = "rejected"
                 THEN [peerStep EXCEPT ![r] = NoSteps] ELSE peerStep
  /\ stack' = SubSeq(stack, 1, Len(stack) - 1)
  /\ UNCHANGED cacheVars
  /\ UNCHANGED <<nRemotes, status, abort, aborted, nruns, constructed,
                 statePeers, cleanUp, stoppedPeers, loaded, outcome,
                 pubRun, tokenAborted, waits>>

\* the finally block: stop the peers held in state, run every cleanUp
Finally(r, out) ==
  /\ stoppedPeers' = [stoppedPeers EXCEPT ![r] = @ \cup statePeers[r]]
  /\ cleanUp' = [cleanUp EXCEPT ![r] = {}]
  /\ peerStep' = [peerStep EXCEPT ![r] = NoSteps]
  /\ pc' = [pc EXCEPT ![r] = "done"]
  /\ outcome' = [outcome EXCEPT ![r] = out]

\* signal.reason, the error the rejected awaits throw: stop() is the only
\* caller of abort.abort
AbortReason(r) == MANUALLY_STOP

\* the error of a SyncPeer constructor that throws
FAULT == "fault"

CatchSwallowsAll(error) == "returned"

\* catch (error) { if (error === MANUALLY_STOP) return; throw error; }
Catch(error) == IF error = MANUALLY_STOP THEN "returned" ELSE "thrown"

\* this.sync(...).catch(err => this.logger.error(err)) of start()
StartCatch(out) == IF out = "thrown" THEN "logged" ELSE out

\* catch (error === MANUALLY_STOP) return, else rethrow to the catch of
\* start(); then finally (lines 497-511)
SyncUnwind(r) ==
  /\ stack = <<>>
  /\ r \in 1..nruns
  /\ pc[r] = "rejected"
  /\ Finally(r, StartCatch(Catch(AbortReason(r))))
  /\ UNCHANGED cacheVars
  /\ UNCHANGED <<nRemotes, status, abort, aborted, nruns, constructed,
                 statePeers, loaded, stack, pubRun, tokenAborted, waits>>

\* step 3 when the constructor of remote peer k throws: peers 1..k-1 are
\* constructed and subscribed, state.remotePeers is never assigned, the
\* error is rethrown through finally to the catch of start()
SyncContinueFault(r, k) ==
  /\ stack = <<>>
  /\ r \in 1..nruns
  /\ MayConstructRemotes(r)
  /\ k \in 1..nRemotes
  /\ constructed' = [constructed EXCEPT ![r] = @ \cup (1..(k - 1))]
  /\ Finally(r, StartCatch(Catch(FAULT)))
  /\ UNCHANGED cacheVars
  /\ UNCHANGED <<nRemotes, status, abort, aborted, nruns, statePeers, loaded,
                 stack, pubRun, tokenAborted, waits>>

\* waitForSynced(abort?) / waitForLoadedRootDoc(abort?); atCall records how
\* the call left the promise, subscribed that its else branch called
\* this.onStatusChange.on (the disposable is dropped, nothing removes it)
Wait(kind, tok) ==
  /\ stack = <<>>
  /\ Len(waits) < MaxWaits
  /\ LET ab == tok # NoToken /\ tokenAborted[tok]
     IN waits' = Append(waits,
          [kind |-> kind, token |-> tok,
           state |-> WaitCall(kind, tok, status, ab),
           reason |-> IF WaitCall(kind, tok, status, ab) = "rejected"
                      THEN tok ELSE NoToken,
           atCall |-> WaitCall(kind, tok, status, ab),
           subscribed |-> WaitCall(kind, tok, status, ab) # "resolved"])
  /\ UNCHANGED cacheVars
  /\ UNCHANGED <<nRemotes, engineVars, tokenAborted>>

WaitForSynced(tok) == Wait("synced", tok)

WaitForLoadedRootDoc(tok) == Wait("loaded", tok)

\* the caller aborts the token it passed to a wait call
AbortCallerToken(t) ==
  /\ stack = <<>>
  /\ ~ tokenAborted[t]
  /\ tokenAborted' = [tokenAborted EXCEPT ![t] = TRUE]
  /\ waits' = RejectWaits(waits, t)
  /\ UNCHANGED cacheVars
  /\ UNCHANGED <<nRemotes, engineVars>>

\* the handlers of one run of sync and of its peers
RunNext ==
  \/ \E r \in Runs : SyncWaitLoaded(r)
  \/ \E r \in Runs, p \in Peers, s \in RunningPeerSteps : PeerStatusChange(r, p, s)
  \/ \E r \in Runs : SyncContinue(r)
  \/ \E r \in Runs : SyncSteadyWait(r)
  \/ \E r \in Runs : SyncUnwind(r)
  \/ \E r \in Runs, k \in 1..MaxRemotes : SyncContinueFault(r, k)

\* the engine's lifecycle: start(), stop(), sync and the peers
Next ==
  \/ Stop
  \/ Start
  \/ RunNext

Spec == Init /\ [][Next]_vars

\* the wait calls and their caller tokens, against an engine that is started
\* once and stopped any number of times
WaitNext ==
  \/ Stop
  \/ (nruns = 0 /\ Start)
  \/ RunNext
  \/ \E tok \in Tokens \cup {NoToken} : WaitForSynced(tok)
  \/ \E tok \in Tokens \cup {NoToken} : WaitForLoadedRootDoc(tok)
  \/ \E t \in Tokens : AbortCallerToken(t)

\* an engine constructed with at most MaxWaitRemotes remote storages
WaitInit == Init /\ nRemotes <= MaxWaitRemotes

WaitSpec == WaitInit /\ [][WaitNext]_vars

\* The continuations of a run are microtasks and event listeners of one
\* event loop: a continuation that is ready to run does run.
Fairness ==
  \A r \in Runs :
    /\ WF_vars(SyncWaitLoaded(r))
    /\ WF_vars(SyncContinue(r))
    /\ WF_vars(SyncSteadyWait(r))
    /\ WF_vars(SyncUnwind(r))

\* What a run does next depends on a peer status only through the local
\* peer having loaded: the peers report one step before and one step after
\* the load.
FairPeerSteps == {PeerLoadingRootDoc, PeerSynced}

FairNext ==
  \/ Stop
  \/ Start
  \/ \E r \in Runs : SyncWaitLoaded(r)
  \/ \E r \in Runs, p \in Peers, s \in FairPeerSteps : PeerStatusChange(r, p, s)
  \/ \E r \in Runs : SyncContinue(r)
  \/ \E r \in Runs : SyncSteadyWait(r)
  \/ \E r \in Runs : SyncUnwind(r)
  \/ \E r \in Runs, k \in 1..MaxRemotes : SyncContinueFault(r, k)

FairSpec == Init /\ [][FairNext]_vars /\ Fairness

\* ---- LocalCache: standard operations on one key ----
\* the values given to setnx, the counts given to increase / decrease, the
\* number the key may hold before the first call
CacheValues == {1, 2}
Counts == {1, 2}
InitialNumbers == {3}

\* this.has(key)
Has == kvType # "absent"

\* (await this.get(key)) ?? 0
GetOrZero == IF kvType = "absent" THEN 0 ELSE kvNum

\* typeof prev !== 'number'
NotANumber == kvType \notin {"absent", "number"}

NewCall(op, arg, first) ==
  [op |-> op, arg |-> arg, pc |-> first, prev |-> 0, ok |-> "none", num |-> 0]

\* setnx(key, v) up to `await this.has(key)`
Setnx(v) ==
  /\ Len(calls) < MaxCalls
  /\ calls' = Append(calls, NewCall("setnx", v, "has"))
  /\ UNCHANGED <<syncVars, kvType, kvNum, kvList, kv0, ncalls, lastCall>>

\* the continuation of `await this.has(key)`: return false when the key is
\* there, else go on to this.set
SetnxHas(c) ==
  /\ c \in DOMAIN calls
  /\ calls[c].op = "setnx" /\ calls[c].pc = "has"
  /\ calls' = [calls EXCEPT ![c] =
                 IF Has THEN [@ EXCEPT !.pc = "done", !.ok = "false"]
                 ELSE [@ EXCEPT !.pc = "set"]]
  /\ UNCHANGED <<syncVars, kvType, kvNum, kvList, kv0, ncalls, lastCall>>

\* this.set(key, value): kv.set stores the value, then true
SetnxSet(c) ==
  /\ c \in DOMAIN calls
  /\ calls[c].op = "setnx" /\ calls[c].pc = "set"
  /\ kvType' = "number"
  /\ kvNum' = calls[c].arg
  /\ calls' = [calls EXCEPT ![c] = [@ EXCEPT !.pc = "done", !.ok = "true"]]
  /\ UNCHANGED <<syncVars, kvList, kv0, ncalls, lastCall>>

\* increase(key, count) up to `await this.get(key)`
Increase(count) ==
  /\ Len(calls) < MaxCalls
  /\ calls' = Append(calls, NewCall("increase", count, "get"))
  /\ UNCHANGED <<syncVars, kvType, kvNum, kvList, kv0, ncalls, lastCall>>

\* decrease(key, count): this.increase(key, -count)
Decrease(count) == Increase(- count)

\* the continuation of `await this.get(key)`: prev, the type check, curr
IncreaseGet(c) ==
  /\ c \in DOMAIN calls
  /\ calls[c].op = "increase" /\ calls[c].pc = "get"
  /\ calls' = [calls EXCEPT ![c] =
                 IF NotANumber THEN [@ EXCEPT !.pc = "done", !.ok = "error"]
                 ELSE [@ EXCEPT !.pc = "set", !.prev = GetOrZero]]
  /\ UNCHANGED <<syncVars, kvType, kvNum, kvList, kv0, ncalls, lastCall>>

\* `(await this.set(key, curr)) ? curr : prev`: kv.set stores curr, then true
IncreaseSet(c) ==
  /\ c \in DOMAIN calls
  /\ calls[c].op = "increase" /\ calls[c].pc = "set"
  /\ kvType' = "number"
  /\ kvNum' = calls[c].prev + calls[c].arg
  /\ calls' = [calls EXCEPT ![c] =
                 [@ EXCEPT !.pc = "done", !.ok = "true",
                           !.num = calls[c].prev + calls[c].arg]]
  /\ UNCHANGED <<syncVars, kvList, kv0, ncalls, lastCall>>

CacheNext ==
  \/ \E v \in CacheValues : Setnx(v)
  \/ \E c \in 1..MaxCalls : SetnxHas(c)
  \/ \E c \in 1..MaxCalls : SetnxSet(c)
  \/ \E count \in Counts : Increase(count)
  \/ \E count \in Counts : Decrease(count)
  \/ \E c \in 1..MaxCalls : IncreaseGet(c)
  \/ \E c \in 1..MaxCalls : IncreaseSet(c)

\* an engine that is never started, a key that is absent or holds a number
CacheInit ==
  /\ EngineInit /\ nRemotes = 0
  /\ \/ kvType = "absent" /\ kvNum = 0
     \/ kvType = "number" /\ kvNum \in InitialNumbers
  /\ kv0 = [type |-> kvType, num |-> kvNum]
  /\ kvList = <<>>
  /\ calls = <<>>
  /\ ncalls = 0
  /\ lastCall = NoCall

CacheSpec == CacheInit /\ [][CacheNext]_vars

\* ---- LocalCache: list operations on one key, one call after another ----
ListValues == {1, 2}
PopCounts == {1, 2, 3}
ListStarts == {0, 1}

Min(a, b) == IF a < b THEN a ELSE b
Max(a, b) == IF a > b THEN a ELSE b

\* Array.prototype.splice(start, deleteCount) on an array of length n: the
\* index it starts at and the number of elements it removes
SpliceFrom(n, start) == IF start < 0 THEN Max(n + start, 0) ELSE Min(start, n)
SpliceCount(n, start, deleteCount) ==
  Max(0, Min(deleteCount, n - SpliceFrom(n, start)))

\* what splice returns, and what it leaves in the array
Spliced(list, start, deleteCount) ==
  LET from == SpliceFrom(Len(list), start)
      cnt == SpliceCount(Len(list), start, deleteCount)
  IN SubSeq(list, from + 1, from + cnt)

SpliceRest(list, start, deleteCount) ==
  LET from == SpliceFrom(Len(list), start)
      cnt == SpliceCount(Len(list), start, deleteCount)
  IN SubSeq(list, 1, from) \o SubSeq(list, from + cnt + 1, Len(list))

\* Array.prototype.slice(start, end) for start, end >= 0
Slice(list, start, end) ==
  SubSeq(list, Min(start, Len(list)) + 1, Min(end, Len(list)))

\* getArray: `raw && !Array.isArray(raw.value)` throws
GetArrayThrows == kvType \notin {"absent", "array"}

\* raw.value of getArray, [] when nothing is stored
RawValue == IF kvType = "array" THEN kvList ELSE <<>>

Returned(op, arg, ret, len) ==
  [op |-> op, arg |-> arg, ret |-> ret, len |-> len, err |-> FALSE]

Thrown(op, arg) ==
  [op |-> op, arg |-> arg, ret |-> <<>>, len |-> 0, err |-> TRUE]

\* setArray(key, list): this.set(key, list), then list.length
SetArray(op, arg, list) ==
  /\ kvType' = "array"
  /\ kvList' = list
  /\ lastCall' = Returned(op, arg, <<>>, Len(list))

PushBack(v) ==
  /\ ncalls < MaxOps
  /\ ncalls' = ncalls + 1
  /\ IF GetArrayThrows
     THEN lastCall' = Thrown("pushBack", v) /\ UNCHANGED <<kvType, kvList>>
     ELSE SetArray("pushBack", v, RawValue \o <<v>>)
  /\ UNCHANGED <<syncVars, kvNum, kv0, calls>>

PushFront(v) ==
  /\ ncalls < MaxOps
  /\ ncalls' = ncalls + 1
  /\ IF GetArrayThrows
     THEN lastCall' = Thrown("pushFront", v) /\ UNCHANGED <<kvType, kvList>>
     ELSE SetArray("pushFront", v, <<v>> \o RawValue)
  /\ UNCHANGED <<syncVars, kvNum, kv0, calls>>

\* len(key)
ListLen ==
  /\ ncalls < MaxOps
  /\ ncalls' = ncalls + 1
  /\ lastCall' = IF GetArrayThrows THEN Thrown("len", 0)
                 ELSE Returned("len", 0, <<>>, Len(RawValue))
  /\ UNCHANGED <<syncVars, kvType, kvNum, kvList, kv0, calls>>

\* list(key, start, count)
List(start, count) ==
  /\ ncalls < MaxOps
  /\ ncalls' = ncalls + 1
  /\ lastCall' = IF GetArrayThrows THEN Thrown("list", count)
                 ELSE Returned("list", count,
                               Slice(RawValue, start, start + count), 0)
  /\ UNCHANGED <<syncVars, kvType, kvNum, kvList, kv0, calls>>

\* trim(key, start, length): splice(start, start + length) on raw.value,
\* then this.set(key, list) with list the raw wrapper {value, expires}
Trim(op, arg, start, length) ==
  /\ ncalls < MaxOps
  /\ ncalls' = ncalls + 1
  /\ IF GetArrayThrows
     THEN lastCall' = Thrown(op, arg) /\ UNCHANGED <<kvType, kvList>>
     ELSE IF kvType = "absent"
     THEN lastCall' = Returned(op, arg, <<>>, 0) /\ UNCHANGED <<kvType, kvList>>
     ELSE /\ kvType' = "object"
          /\ kvList' = SpliceRest(kvList, start, start + length)
          /\ lastCall' = Returned(op, arg, Spliced(kvList, start, start + length), 0)
  /\ UNCHANGED <<syncVars, kvNum, kv0, calls>>

PopFront(count) == Trim("popFront", count, 0, count)

PopBack(count) == Trim("popBack", count, - count, count)

ListNext ==
  \/ \E v \in ListValues : PushBack(v)
  \/ \E v \in ListValues : PushFront(v)
  \/ ListLen
  \/ \E start \in ListStarts, count \in PopCounts : List(start, count)
  \/ \E count \in PopCounts : PopFront(count)
  \/ \E count \in PopCounts : PopBack(count)

ListInit == CacheIdle /\ EngineInit /\ nRemotes = 0

ListSpec == ListInit /\ [][ListNext]_vars

\* ---- properties ----

\* the runs whose token is not aborted and whose sync has not finished
LiveRuns == {r \in 1..nruns : ~ aborted[r] /\ pc[r] # "done"}

\* a status with every peer slot absent
AllAbsent(s) ==
  /\ s.local = Null
  /\ \A i \in 1..nRemotes : s.remotes[i] = Null

\* C1: in every run of sync, a remote SyncPeer exists only once that run's
\* localPeer.waitForLoaded has resolved, and a status the run publishes has
\* a present remote slot only then.
RemotesOnlyAfterLocalLoaded ==
  \A r \in Runs :
    /\ (constructed[r] \ {0} # {}) => loaded[r]
    /\ (pubRun = r /\ \E i \in 1..nRemotes : status.remotes[i] # Null)
         => loaded[r]

RemotesOnlyAfterLocalLoadedWitness ==
  \E r \in Runs :
    /\ nRemotes = 2
    /\ constructed[r] = {0, 1, 2}
    /\ loaded[r]
    /\ pubRun = r
    /\ status.remotes[2] # Null

\* C2: start() while a run is active aborts the prior run's token before the
\* new run constructs a peer, and no status computed from a prior run's
\* peers is published once a newer run has started.
PriorRunNeverOverwrites ==
  /\ \A r \in 1..nruns : (r < nruns /\ pc[r] # "done") => aborted[r]
  /\ pubRun \in {0, nruns}

\* C3: no updateSyncingState on behalf of a run whose token is aborted: the
\* current status, when a run published it, comes from a run not yet aborted
\* (stop() and start() replace the status when they abort a run).
NoRecomputeAfterAbort == pubRun # 0 => ~ aborted[pubRun]

\* a step of stop(): the current controller's signal fires, or a published
\* status is replaced while the controller stays the same
StopStep ==
  /\ abort' = abort
  /\ nruns' = nruns
  /\ \/ ~ aborted[abort] /\ aborted'[abort]
     \/ pubRun # 0 /\ pubRun' = 0

\* C4: when stop() returns, from any prior state, the status is
\* {Stopped, local absent, every remote slot absent, retrying false}.
StopYieldsStoppedStatus ==
  [][StopStep =>
       /\ status'.step = Stopped
       /\ status'.local = Null
       /\ DOMAIN status'.remotes = 1..nRemotes
       /\ \A i \in 1..nRemotes : status'.remotes[i] = Null
       /\ status'.retrying = FALSE]_vars

StopYieldsStoppedStatusWitness ==
  /\ abort # 0 /\ aborted[abort]
  /\ nRemotes = 2
  /\ constructed[abort] = {0, 1, 2}
  /\ pc[abort] = "rejected"
  /\ status.step = Stopped /\ AllAbsent(status) /\ ~ status.retrying

\* C5: from stop() until the next start() (the current controller's signal
\* is aborted) the status stays Stopped with every peer slot absent and
\* retrying false.
StoppedStaysStopped ==
  aborted[abort] =>
    status.step = Stopped /\ AllAbsent(status) /\ ~ status.retrying

\* C6: a status published by updateSyncingState has step Synced iff local
\* and every remote slot are present and at PeerSynced, and step Syncing
\* otherwise.
PublishedStepSyncedIffAllSynced ==
  pubRun # 0 =>
    /\ status.step \in {Syncing, Synced}
    /\ status.step = Synced <=>
         /\ status.local # Null /\ status.local = PeerSynced
         /\ \A i \in 1..nRemotes :
              status.remotes[i] # Null /\ status.remotes[i] = PeerSynced

PublishedStepSyncedIffAllSyncedWitness ==
  /\ pubRun # 0
  /\ nRemotes = 2
  /\ status.step = Synced

\* C7: in every status, retrying is true iff a present peer of that status
\* is at PeerRetrying.
RetryingIffSomePeerRetrying ==
  status.retrying <=>
    \/ status.local # Null /\ status.local = PeerRetrying
    \/ \E i \in 1..nRemotes :
         status.remotes[i] # Null /\ status.remotes[i] = PeerRetrying

RetryingIffSomePeerRetryingWitness ==
  /\ status.retrying
  /\ status.local = PeerRetrying
  /\ nRemotes = 2 /\ status.remotes[1] = PeerSynced

\* C8: at most one run of sync has a token that is not aborted and has not
\* finished.
AtMostOneLiveRun == Cardinality(LiveRuns) <= 1

AtMostOneLiveRunWitness ==
  /\ nruns = 2
  /\ LiveRuns = {2}
  /\ aborted[1] /\ pc[1] \notin {"done", "idle"}
  /\ stack = <<1, 2>>

\* the synced waits, and the wait a call of this step appended
IsCall == Len(waits') = Len(waits) + 1
NewWait == waits'[Len(waits')]

\* C9: waitForSynced resolves at the call when the status is Synced;
\* otherwise it is settled by whichever comes first: a status change
\* reporting Synced resolves it, the caller token aborting (at the call
\* already, or later) fails it with that token's reason.
WaitForSyncedRace ==
  [][/\ (IsCall /\ NewWait.kind = "synced") =>
          /\ status.step = Synced => NewWait.state = "resolved"
          /\ (status.step # Synced /\ NewWait.token # NoToken
                /\ tokenAborted[NewWait.token])
               => NewWait.state = "rejected" /\ NewWait.reason = NewWait.token
          /\ (status.step # Synced
                /\ (NewWait.token = NoToken \/ ~ tokenAborted[NewWait.token]))
               => NewWait.state = "pending"
     /\ \A w \in 1..Len(waits) :
          waits[w].kind = "synced" =>
            /\ waits[w].state # "pending" => waits'[w] = waits[w]
            /\ waits[w].state = "pending" =>
                 /\ waits'[w].state = "resolved"
                      <=> (pubRun' # 0 /\ status'.step = Synced)
                 /\ waits'[w].state = "rejected"
                      <=> /\ ~ (pubRun' # 0 /\ status'.step = Synced)
                          /\ waits[w].token # NoToken
                          /\ ~ tokenAborted[waits[w].token]
                          /\ tokenAborted'[waits[w].token]
                 /\ waits'[w].state = "rejected"
                      => waits'[w].reason = waits[w].token]_vars

WaitForSyncedRaceWitness ==
  /\ Len(waits) = 2
  /\ waits[1].kind = "synced" /\ waits[1].atCall = "pending"
  /\ waits[1].state = "rejected" /\ waits[1].reason = 1
  /\ waits[2].kind = "synced" /\ waits[2].atCall = "pending"
  /\ waits[2].state = "resolved"

\* C10 as claimed: waitForLoadedRootDoc called with an already aborted
\* token fails at once with that token's reason, whatever the status.
AbortedTokenAlwaysFails ==
  [][(IsCall /\ NewWait.kind = "loaded" /\ NewWait.token # NoToken
        /\ tokenAborted[NewWait.token])
       => NewWait.state = "rejected" /\ NewWait.reason = NewWait.token]_vars

\* every slot of the status is present and past PeerLoadingRootDoc
AllSlotsPastRootDoc ==
  /\ status.local # Null /\ status.local > PeerLoadingRootDoc
  /\ \A i \in 1..nRemotes :
       status.remotes[i] # Null /\ status.remotes[i] > PeerLoadingRootDoc

\* C10 amended: waitForLoadedRootDoc called with an already aborted token
\* fails at once with that token's reason unless every slot of the status is
\* present and past PeerLoadingRootDoc; in that case it resolves at once.
AbortedTokenFailsUnlessLoaded ==
  [][(IsCall /\ NewWait.kind = "loaded" /\ NewWait.token # NoToken
        /\ tokenAborted[NewWait.token])
       => IF AllSlotsPastRootDoc
          THEN NewWait.state = "resolved"
          ELSE NewWait.state = "rejected" /\ NewWait.reason = NewWait.token]_vars

AbortedTokenFailsUnlessLoadedWitness ==
  /\ Len(waits) = 2
  /\ tokenAborted[1]
  /\ waits[1].kind = "loaded" /\ waits[1].token = 1
  /\ waits[1].atCall = "rejected" /\ waits[1].reason = 1
  /\ waits[2].kind = "loaded" /\ waits[2].token = 1
  /\ waits[2].atCall = "resolved"
  /\ AllSlotsPastRootDoc
  /\ nRemotes = 1

\* every slot of s is present and strictly past PeerLoadingRootDoc
SlotsPastRootDoc(s) ==
  /\ s.local # Null /\ s.local > PeerLoadingRootDoc
  /\ \A i \in 1..Len(s.remotes) :
       s.remotes[i] # Null /\ s.remotes[i] > PeerLoadingRootDoc

\* C11: waitForLoadedRootDoc resolves exactly when every slot of the
\* status (local and every remote) is present and strictly past
\* PeerLoadingRootDoc, whatever the engine step: at the call when the
\* status already is so, later at the first status change that is so, and
\* never while a slot is absent or at or before PeerLoadingRootDoc.
LoadedRootDocResolvesExactly ==
  [][/\ (IsCall /\ NewWait.kind = "loaded")
          => (NewWait.state = "resolved" <=> SlotsPastRootDoc(status))
     /\ \A w \in 1..Len(waits) :
          (waits[w].kind = "loaded" /\ waits[w].state = "pending")
            => (waits'[w].state = "resolved" <=> SlotsPastRootDoc(status'))]_vars

LoadedRootDocResolvesExactlyWitness ==
  /\ nRemotes = MaxWaitRemotes
  /\ status.step = Syncing
  /\ SlotsPastRootDoc(status)
  /\ \E w \in 1..Len(waits) :
       /\ waits[w].kind = "loaded"
       /\ waits[w].atCall = "pending"
       /\ waits[w].state = "resolved"

\* C12: when a run has finished unwinding, every peer it constructed has
\* been stopped and every subscription it registered has been removed.
FinishedRunLeavesNothing ==
  \A r \in Runs :
    pc[r] = "done" => constructed[r] \subseteq stoppedPeers[r] /\ cleanUp[r] = {}

\* C13: a run whose token is aborted eventually reaches its teardown and
\* terminates.
AbortedRunTerminates ==
  \A r \in Runs : (aborted[r] /\ pc[r] \notin {"idle", "done"}) ~> (pc[r] = "done")

AbortedRunTerminatesWitness ==
  \E r \in Runs :
    /\ aborted[r] /\ pc[r] = "done" /\ loaded[r]
    /\ statePeers[r] = 0..nRemotes /\ nRemotes > 0
    /\ stoppedPeers[r] = statePeers[r]

\* C14: a run unwound by the abort of stop() ends normally; a fault of the
\* run ends logged by start(); no run ends with an error thrown to the
\* caller of start().
StopReturnsFaultIsLogged ==
  [][\A r \in Runs :
       /\ (pc[r] = "rejected" /\ pc'[r] = "done") => outcome'[r] = "returned"
       /\ (pc[r] = "resolved" /\ pc'[r] = "done") => outcome'[r] = "logged"
       /\ outcome'[r] # "thrown"]_vars

StopReturnsFaultIsLoggedWitness ==
  \E r1, r2 \in Runs :
    /\ pc[r1] = "done" /\ outcome[r1] = "returned"
    /\ pc[r2] = "done" /\ outcome[r2] = "logged"

\* C15: every change of the current status is emitted to the subscribers,
\* the change to Stopped by stop() included.
EveryStatusChangeEmitted ==
  [][status' # status => pubRun' # 0]_vars

\* C16: the abort of a caller token fails the pending wait calls that were
\* given this token and nothing else: the engine status, the run's token,
\* the peers and every other wait call stay as they are.
CallerAbortFailsOnlyItsWaits ==
  [][\A t \in Tokens :
       (~ tokenAborted[t] /\ tokenAborted'[t]) =>
         /\ UNCHANGED <<nRemotes, engineVars>>
         /\ Len(waits') = Len(waits)
         /\ \A w \in 1..Len(waits) :
              IF waits[w].state = "pending" /\ waits[w].token = t
              THEN waits'[w].state = "rejected" /\ waits'[w].reason = t
              ELSE waits'[w] = waits[w]]_vars

CallerAbortFailsOnlyItsWaitsWitness ==
  /\ \E t \in Tokens, w1, w2 \in 1..Len(waits) :
       /\ tokenAborted[t]
       /\ waits[w1].atCall = "pending" /\ waits[w1].state = "rejected"
       /\ waits[w1].reason = t
       /\ waits[w2].token = NoToken /\ waits[w2].state = "pending"
  /\ abort \in Runs /\ ~ aborted[abort] /\ pc[abort] = "steady"
  /\ status.step = Syncing

\* C17: a wait call that has settled has no subscription left on
\* engine.onStatusChange.
SettledWaitUnsubscribed ==
  \A w \in 1..Len(waits) :
    waits[w].state \in {"resolved", "rejected"} => ~ waits[w].subscribed



\* C18: setnx calls on a key that is absent: at most one of them returns
\* true, and the key holds the value of the call that returned true.
SetnxAtMostOneWins ==
  (kv0.type = "absent" /\ \A c \in DOMAIN calls : calls[c].op = "setnx") =>
    LET won == {c \in DOMAIN calls : calls[c].ok = "true"}
    IN /\ Cardinality(won) <= 1
       /\ \A c \in won : Has /\ kvNum = calls[c].arg

RECURSIVE SumArgs(_)
SumArgs(cs) == IF cs = <<>> THEN 0 ELSE cs[1].arg + SumArgs(Tail(cs))

\* C19: once the increase and decrease calls on a key have all completed,
\* the key holds its first value (0 when absent) plus the sum of the
\* counts, and each call returned the value it stored.
CountersLoseNoUpdate ==
  (/\ calls # <<>>
   /\ \A c \in DOMAIN calls : calls[c].op = "increase" /\ calls[c].pc = "done")
    => /\ kvType = "number"
       /\ kvNum = kv0.num + SumArgs(calls)
       /\ \A c \in DOMAIN calls : calls[c].num = calls[c].prev + calls[c].arg

\* C20: on a list of length n, popFront(key, k) returns the first
\* min(k, n) elements and popBack(key, k) the last min(k, n); the key then
\* holds the remaining elements in their order as a list, len returns
\* their number, and no list call on the key throws a type error.
PopsKeepTheList ==
  [][ncalls' = ncalls + 1 =>
       LET n == Len(kvList)
           m == Min(lastCall'.arg, n)
       IN /\ ~ lastCall'.err
          /\ (lastCall'.op = "popFront" /\ kvType = "array") =>
               /\ lastCall'.ret = SubSeq(kvList, 1, m)
               /\ kvType' = "array" /\ kvList' = SubSeq(kvList, m + 1, n)
          /\ (lastCall'.op = "popBack" /\ kvType = "array") =>
               /\ lastCall'.ret = SubSeq(kvList, n - m + 1, n)
               /\ kvType' = "array" /\ kvList' = SubSeq(kvList, 1, n - m)
          /\ (lastCall'.op = "len" /\ kvType = "array") => lastCall'.len = n]_vars


====
